---- MODULE Spec2Model ----
(***************************************************************************)
(* Model of repricer.py (SimpleManaPoolPricer).                            *)
(*                                                                         *)
(* Money.  The program holds prices as Python floats in dollars, obtained  *)
(* from integer cents by "/ 100.0".  The model holds a price as an integer *)
(* number of units, Scale units to the cent, so that every value            *)
(* calculate_new_price can produce from cent inputs and whole percentages  *)
(* (a percentage of a cent amount, the mean of two cent amounts) is an     *)
(* integer and its arithmetic is exact.  Where the binary rounding of a    *)
(* float decides what the program does (the 0.01 threshold and the         *)
(* conversion back to cents in process_inventory) the rounding error of    *)
(* the double nearest to n/100 is computed exactly, see FloatErr.          *)
(***************************************************************************)
EXTENDS Integers, Sequences, FiniteSets, TLC

VARIABLES
    \* configuration, self.* set by _load_config
    pricing_strategy, lp_floor_percent, min_price, max_reduction_percent, dry_run,
    \* calculate_new_price called on its own: the arguments, and one record
    \* per call made: the general price passed and the tuple returned
    current_price, nm_price, lp_plus_price, returned,
    \* process_inventory: its two arguments, the number of records the loop
    \* has taken, its locals updates and stats, and per record taken the
    \* locals of the loop body when it left the record (trace)
    inventory, price_data, processed, updates, stats, trace,
    \* apply_updates (its argument is updates): what input() gave, the
    \* batches POSTed so far, how each POST ended, the loop index i, and the
    \* value returned
    answer, posted, responses, offset, result,
    \* fetch_inventory: the records the server holds and the most it serves
    \* in one page, and the local all_items (its local offset is held in
    \* offset, apply_updates not running beside it)
    held, page_size, all_items,
    \* where the function that is running stands
    pc

vars == <<pricing_strategy, lp_floor_percent, min_price, max_reduction_percent,
          dry_run, current_price, nm_price, lp_plus_price, returned,
          inventory, price_data, processed, updates, stats, trace,
          answer, posted, responses, offset, result,
          held, page_size, all_items, pc>>

config == <<pricing_strategy, lp_floor_percent, min_price, max_reduction_percent,
            dry_run>>

calcVars == <<current_price, nm_price, lp_plus_price, returned>>

processVars == <<inventory, price_data, processed, updates, stats, trace>>

applyVars == <<answer, posted, responses, offset, result>>

fetchVars == <<held, page_size, all_items>>

(***************************************************************************)
(* Bounds of the model and constants of the program.                       *)
(***************************************************************************)
\* prices 0..MaxCents cents are enumerated, besides the sample prices
MaxCents == 3
\* number of calls of calculate_new_price made on one set of arguments
MaxCalls == 2
\* longest inventory handed to process_inventory
MaxItems == 2

\* Python's None
None == -1
\* units per cent; the program's "/ 100.0" of a percentage
Scale == 100

LP_FLOOR_PERCENT == 100
MIN_PRICE_CENTS == 1
MAX_REDUCTION_PERCENT == 5

\* the five documented strategy names, and a name that is none of them
Strategies ==
    {"nm_with_floor", "lp_plus", "average", "nm_only", "general_low", "unknown"}

FloorPercents == {LP_FLOOR_PERCENT, 90, 110}
MinPrices == {MIN_PRICE_CENTS * Scale, 3 * Scale}
MaxReductions == {MAX_REDUCTION_PERCENT, 50}

Max(a, b) == IF a >= b THEN a ELSE b

(***************************************************************************)
(* calculate_new_price.  Arguments in units, None for an absent price.     *)
(* The result is the returned tuple: price (None for "no decision") and    *)
(* reason, the reason being the sequence of the parts the code appends     *)
(* (the formatted amounts inside each part are left out).                  *)
(***************************************************************************)
NoDecision(why) == [price |-> None, reason |-> <<why>>]

\* lines 211-215
NmOnly(nm) ==
    IF nm = None THEN NoDecision("No NM price available")
    ELSE [price |-> nm, reason |-> <<"NM price">>]

\* lines 217-221
LpPlus(lp) ==
    IF lp = None THEN NoDecision("No LP+ price available")
    ELSE [price |-> lp, reason |-> <<"LP+ price">>]

\* sum(prices) of a list of at most two prices
Sum(prices) ==
    IF Len(prices) = 0 THEN 0
    ELSE IF Len(prices) = 1 THEN prices[1]
    ELSE prices[1] + prices[2]

\* [p for p in [nm_price, lp_plus_price] if p is not None]
Present(nm, lp) ==
    (IF nm # None THEN <<nm>> ELSE <<>>) \o (IF lp # None THEN <<lp>> ELSE <<>>)

AverageHalved(nm, lp) ==
    LET prices == Present(nm, lp) IN
    IF Len(prices) = 0 THEN NoDecision("No pricing data available")
    ELSE [price |-> Sum(prices) \div 2, reason |-> <<"Average of">>]

\* lines 223-228
Average(nm, lp) ==
    LET prices == Present(nm, lp) IN
    IF Len(prices) = 0 THEN NoDecision("No pricing data available")
    ELSE [price |-> Sum(prices) \div Len(prices), reason |-> <<"Average of">>]

\* lines 230-235
GeneralLow(general) ==
    IF general = None THEN NoDecision("No general price available")
    ELSE [price |-> general, reason |-> <<"General/market price">>]

NmWithFloorUnscaled(nm, lp) ==
    IF nm = None THEN NoDecision("No NM price available")
    ELSE IF lp # None /\ nm < lp \div 100
         THEN [price |-> lp \div 100, reason |-> <<"NM", "LP+ floor">>]
         ELSE [price |-> nm, reason |-> <<"NM">>]

\* lines 237-249
NmWithFloor(nm, lp) ==
    IF nm = None THEN NoDecision("No NM price available")
    ELSE LET lp_floor == IF lp # None THEN (lp * lp_floor_percent) \div 100 ELSE None
         IN  IF lp # None /\ nm < lp_floor
             THEN [price |-> lp_floor, reason |-> <<"NM", "LP+ floor">>]
             ELSE [price |-> nm, reason |-> <<"NM">>]

StrategyPriceStrict(nm, lp, general) ==
    IF pricing_strategy = "nm_only" THEN NmOnly(nm)
    ELSE IF pricing_strategy = "lp_plus" THEN LpPlus(lp)
    ELSE IF pricing_strategy = "average" THEN Average(nm, lp)
    ELSE IF pricing_strategy = "general_low" THEN GeneralLow(general)
    ELSE IF pricing_strategy = "nm_with_floor" THEN NmWithFloor(nm, lp)
    ELSE NoDecision("Unknown strategy")

StrategyPriceAverageAll(nm, lp, general) ==
    IF pricing_strategy = "nm_only" THEN NmOnly(nm)
    ELSE IF pricing_strategy = "lp_plus" THEN LpPlus(lp)
    ELSE IF pricing_strategy = "average"
         THEN Average(IF nm = None THEN general ELSE nm, lp)
    ELSE IF pricing_strategy = "general_low" THEN GeneralLow(general)
    ELSE NmWithFloor(nm, lp)

\* lines 211-249: the if/elif chain on self.pricing_strategy; the else branch
\* takes every other name
StrategyPrice(nm, lp, general) ==
    IF pricing_strategy = "nm_only" THEN NmOnly(nm)
    ELSE IF pricing_strategy = "lp_plus" THEN LpPlus(lp)
    ELSE IF pricing_strategy = "average" THEN Average(nm, lp)
    ELSE IF pricing_strategy = "general_low" THEN GeneralLow(general)
    ELSE NmWithFloor(nm, lp)

ApplyMinPriceOmitted(r) == r

\* lines 251-254
ApplyMinPrice(r) ==
    IF r.price < min_price
    THEN [price |-> min_price, reason |-> Append(r.reason, "min")]
    ELSE r

ApplyReductionCapOfReduction(current, r) ==
    IF current > 0
    THEN LET max_reduction == (current * max_reduction_percent) \div 100
         IN  IF r.price < max_reduction
             THEN [price |-> max_reduction, reason |-> Append(r.reason, "capped")]
             ELSE r
    ELSE r

ApplyReductionCapSilent(current, r) ==
    IF current > 0
    THEN LET max_reduction == (current * max_reduction_percent) \div 100
             min_allowed == current - max_reduction
         IN  IF r.price < min_allowed
             THEN [price |-> min_allowed, reason |-> r.reason]
             ELSE r
    ELSE r

\* lines 256-262
ApplyReductionCap(current, r) ==
    IF current > 0
    THEN LET max_reduction == (current * max_reduction_percent) \div 100
             min_allowed == current - max_reduction
         IN  IF r.price < min_allowed
             THEN [price |-> min_allowed, reason |-> Append(r.reason, "capped")]
             ELSE r
    ELSE r

\* lines 198-264
calculate_new_price(current, nm, lp, general) ==
    LET base == StrategyPrice(nm, lp, general) IN
    IF base.price = None THEN base
    ELSE ApplyReductionCap(current, ApplyMinPrice(base))

(***************************************************************************)
(* SpecCalc: calculate_new_price as a function.  The configuration and the *)
(* arguments other than the general price are drawn at the start; each     *)
(* call supplies a general price and its returned tuple is recorded.       *)
(***************************************************************************)
Cents == 0 .. MaxCents
CurrentPrices == {c * Scale : c \in Cents \cup {1000}}
NmPrices == {None} \cup {c * Scale : c \in Cents \cup {500, 800}}
LpPlusPrices == {None} \cup {c * Scale : c \in Cents \cup {700, 820}}
GeneralPrices == {None, 0, MaxCents * Scale}

InitConfig ==
    /\ pricing_strategy \in Strategies
    /\ lp_floor_percent \in FloorPercents
    /\ min_price \in MinPrices
    /\ max_reduction_percent \in MaxReductions
    /\ dry_run \in BOOLEAN

\* fetch_inventory not called
IdleFetch ==
    /\ held = <<>>
    /\ page_size = 0
    /\ all_items = <<>>

\* process_inventory not called
IdleProcess ==
    /\ inventory = <<>>
    /\ price_data = <<>>
    /\ processed = 0
    /\ updates = <<>>
    /\ stats = <<>>
    /\ trace = <<>>

NotAsked == [raised |-> "not asked", line |-> <<>>]

\* apply_updates not called
IdleApply ==
    /\ answer = NotAsked
    /\ posted = <<>>
    /\ responses = <<>>
    /\ offset = 0
    /\ result = "none"

\* calculate_new_price not called on its own
IdleCalc ==
    /\ current_price = 0
    /\ nm_price = None
    /\ lp_plus_price = None
    /\ returned = <<>>

InitCalc ==
    /\ InitConfig
    /\ dry_run = TRUE
    /\ current_price \in CurrentPrices
    /\ nm_price \in NmPrices
    /\ lp_plus_price \in LpPlusPrices
    /\ returned = <<>>
    /\ IdleProcess
    /\ IdleApply
    /\ IdleFetch
    /\ pc = "calculate_new_price"

Call ==
    /\ Len(returned) < MaxCalls
    /\ \E g \in GeneralPrices :
          LET r == calculate_new_price(current_price, nm_price, lp_plus_price, g)
          IN  returned' = Append(returned,
                  [general_price |-> g, price |-> r.price, reason |-> r.reason])
    /\ UNCHANGED <<config, fetchVars, current_price, nm_price, lp_plus_price, processVars,
                   applyVars, pc>>

NextCalc == Call

SpecCalc == InitCalc /\ [][NextCalc]_vars

(***************************************************************************)
(* Properties of calculate_new_price, over every call recorded under       *)
(* SpecCalc.  The quantities the statements speak of are written here from *)
(* the statements, in exact arithmetic, not from the operators above.      *)
(***************************************************************************)
Made == 1 .. Len(returned)
Decided(i) == returned[i].price # None
Marked(i, part) == \E k \in 1 .. Len(returned[i].reason) : returned[i].reason[k] = part
DefaultStrategy ==
    pricing_strategy \notin {"nm_only", "lp_plus", "average", "general_low"}

\* 100 * current_price * (1 - max_reduction_percent/100)
MinAllowedTimes100 == current_price * (100 - max_reduction_percent)
\* 100 * LP+ * floor_percent/100
LpFloorTimes100 == lp_plus_price * lp_floor_percent

\* the reference price the active strategy requires is absent
RequiredAbsent(i) ==
    CASE pricing_strategy = "nm_only" -> nm_price = None
      [] pricing_strategy = "lp_plus" -> lp_plus_price = None
      [] pricing_strategy = "general_low" -> returned[i].general_price = None
      [] pricing_strategy = "average" -> nm_price = None /\ lp_plus_price = None
      [] OTHER -> nm_price = None

\* 200 times the strategy's price of a decided call
BaseTimes200(i) ==
    CASE pricing_strategy = "nm_only" -> 200 * nm_price
      [] pricing_strategy = "lp_plus" -> 200 * lp_plus_price
      [] pricing_strategy = "general_low" -> 200 * returned[i].general_price
      [] pricing_strategy = "average" ->
            IF nm_price = None THEN 200 * lp_plus_price
            ELSE IF lp_plus_price = None THEN 200 * nm_price
            ELSE 100 * (nm_price + lp_plus_price)
      [] OTHER ->
            IF lp_plus_price = None THEN 200 * nm_price
            ELSE Max(200 * nm_price, 2 * LpFloorTimes100)

\* 200 times max(base, min_price, min_allowed), min_allowed only if current > 0
ExpectedTimes200(i) ==
    Max(Max(BaseTimes200(i), 200 * min_price),
        IF current_price > 0 THEN 2 * MinAllowedTimes100 ELSE 0)

\* C1: whenever current_price > 0 and a price is returned, the price is at
\* least current_price * (1 - max_reduction_percent/100).
C1_ReductionCapped ==
    \A i \in Made :
        (current_price > 0 /\ Decided(i))
            => 100 * returned[i].price >= MinAllowedTimes100

\* a call whose strategy price lay below the cap and was raised to it
C1_Witness ==
    \E i \in Made :
        /\ current_price > 0 /\ Decided(i)
        /\ BaseTimes200(i) < 2 * MinAllowedTimes100
        /\ 100 * returned[i].price = MinAllowedTimes100

\* C2: no decision is returned exactly when the reference price the active
\* strategy requires is absent; a name that is none of the four others is
\* treated as nm_with_floor.
C2_NoDecisionIffRequiredAbsent ==
    \A i \in Made : (~Decided(i)) <=> RequiredAbsent(i)

\* an unknown strategy name decides from the NM price although LP+ is absent,
\* and a call of the average strategy with both prices absent decides nothing
C2_Witness ==
    \E i \in Made :
        \/ pricing_strategy = "unknown" /\ lp_plus_price = None /\ Decided(i)
        \/ pricing_strategy = "average" /\ ~Decided(i)

\* C3: every returned price is at least the configured minimum price, for
\* every strategy and every current price, 0 included.
C3_AtLeastMinPrice ==
    \A i \in Made : Decided(i) => returned[i].price >= min_price

\* the strategy price lay below the minimum, and the reduction cap acted too
C3_Witness ==
    \E i \in Made :
        /\ Decided(i) /\ BaseTimes200(i) < 200 * min_price
        /\ current_price > 0 /\ 2 * MinAllowedTimes100 > 200 * min_price
        /\ returned[i].price >= min_price

\* C4: under nm_with_floor a returned price is at least LP+ * floor_percent/100
\* whenever LP+ is present; when LP+ is absent no floor is applied and the
\* strategy price is the NM price.
C4_LpFloor ==
    \A i \in Made :
        (pricing_strategy = "nm_with_floor" /\ Decided(i)) =>
            /\ lp_plus_price # None => 100 * returned[i].price >= LpFloorTimes100
            /\ lp_plus_price = None =>
                  /\ returned[i].reason[1] = "NM"
                  /\ ~Marked(i, "LP+ floor")
                  /\ 200 * returned[i].price =
                        Max(Max(200 * nm_price, 200 * min_price),
                            IF current_price > 0 THEN 2 * MinAllowedTimes100 ELSE 0)

\* the floor lay above the NM price and above both clamps, and was returned
C4_Witness ==
    \E i \in Made :
        /\ pricing_strategy = "nm_with_floor" /\ Decided(i)
        /\ lp_plus_price # None /\ lp_floor_percent # 100
        /\ 100 * nm_price < LpFloorTimes100
        /\ 100 * returned[i].price = LpFloorTimes100

\* C5: a decided call returns exactly max(base, min_price, min_allowed); so a
\* strategy price above the current price is returned unchanged; and the two
\* examples: current 10.00, NM 8.00, LP+ 8.20, floor 100%, cap 5% gives 9.50,
\* and the average of NM 5 and LP+ 7 gives 6.00 (at a current price of cents).
C5_ExactPrice ==
    \A i \in Made :
        Decided(i) =>
            /\ 200 * returned[i].price = ExpectedTimes200(i)
            /\ (BaseTimes200(i) > 200 * current_price /\ BaseTimes200(i) >= 200 * min_price)
                  => 200 * returned[i].price = BaseTimes200(i)
            /\ ( /\ DefaultStrategy /\ lp_floor_percent = 100
                 /\ max_reduction_percent = 5
                 /\ current_price = 1000 * Scale /\ nm_price = 800 * Scale
                 /\ lp_plus_price = 820 * Scale )
                  => returned[i].price = 950 * Scale
            /\ ( /\ pricing_strategy = "average" /\ current_price <= MaxCents * Scale
                 /\ nm_price = 500 * Scale /\ lp_plus_price = 700 * Scale )
                  => returned[i].price = 600 * Scale

\* the first example, and an average of a single present price
C5_Witness ==
    \E i \in Made :
        \/ /\ pricing_strategy = "nm_with_floor" /\ lp_floor_percent = 100
           /\ max_reduction_percent = 5
           /\ current_price = 1000 * Scale /\ nm_price = 800 * Scale
           /\ lp_plus_price = 820 * Scale /\ returned[i].price = 950 * Scale
        \/ /\ pricing_strategy = "average" /\ nm_price = None
           /\ Decided(i) /\ returned[i].price = lp_plus_price

\* C6: under the average strategy two calls that differ only in the general
\* price return the same decision and the same price.
C6_AverageIgnoresGeneral ==
    \A i, j \in Made :
        pricing_strategy = "average" =>
            /\ returned[i].price = returned[j].price
            /\ returned[i].reason = returned[j].reason

\* two decided calls of the average strategy, one with and one without a
\* general price
C6_Witness ==
    \E i, j \in Made :
        /\ pricing_strategy = "average" /\ Decided(i) /\ Decided(j)
        /\ returned[i].general_price = None /\ returned[j].general_price # None

\* C9: the reason of a decided call names the LP+ floor exactly when the floor
\* raised the price, the minimum exactly when the minimum-price clamp raised
\* it, and the cap exactly when the reduction cap raised it.
C9_ClampsRecorded ==
    \A i \in Made :
        Decided(i) =>
            /\ Marked(i, "LP+ floor") <=>
                  /\ DefaultStrategy /\ lp_plus_price # None
                  /\ 100 * nm_price < LpFloorTimes100
            /\ Marked(i, "min") <=> BaseTimes200(i) < 200 * min_price
            /\ Marked(i, "capped") <=>
                  /\ current_price > 0
                  /\ Max(BaseTimes200(i), 200 * min_price) < 2 * MinAllowedTimes100

\* a call on which the floor, the minimum and the cap all raised the price
C9_Witness ==
    \E i \in Made :
        /\ Decided(i) /\ Marked(i, "LP+ floor") /\ Marked(i, "min")
        /\ Marked(i, "capped")
        /\ returned[i].reason = <<"NM", "LP+ floor", "min", "capped">>

(***************************************************************************)
(* Floats in process_inventory.  A price of n cents is held as the double  *)
(* nearest to n/100 (line 336, "/ 100.0"; line 362, round(x, 2)).  With    *)
(* 2^e <= n/100 < 2^(e+1) that double is M * 2^(e-52), M the integer       *)
(* nearest to n * 2^(52-e) / 100, so it equals                             *)
(*        ( n + FloatErr(n) * 2^(e-52) ) / 100                             *)
(* where FloatErr(n) is minus the remainder r of n * 2^(52-e) by 100 when  *)
(* r < 50 and 100 - r otherwise (r is a multiple of 4: there is no tie).   *)
(***************************************************************************)
RECURSIVE Pow2Mod100(_)
Pow2Mod100(j) == IF j = 0 THEN 1 ELSE (2 * Pow2Mod100(j - 1)) % 100

\* 100 * 2^e <= n
AtLeastPow2(n, e) == IF e >= 0 THEN 100 * 2^e <= n ELSE 100 <= n * 2^(0 - e)

\* the binary exponent of n/100, n >= 1
BinExp(n) == CHOOSE e \in -7 .. 23 : AtLeastPow2(n, e) /\ ~AtLeastPow2(n, e + 1)

FloatErr(n) ==
    LET r == ((n % 100) * Pow2Mod100(52 - BinExp(n))) % 100
    IN  IF r < 50 THEN 0 - r ELSE 100 - r

\* FloatErr(n) * 2^(e-52) in units of 2^-59, the unit of the error of 0.01
ScaledErr(n) == FloatErr(n) * 2^(BinExp(n) + 7)

\* line 365: abs(new_price - current_price) < 0.01, for the doubles of a and
\* b cents.  Doubles of amounts a cent apart and >= 1 cent are within a
\* factor 2 of each other, so their difference is exact, and it is below
\* the double of 0.01 when the two errors differ by less than its error.
CentsDifferBelowCent(a, b) ==
    IF a = b THEN TRUE
    ELSE LET hi == Max(a, b)
             lo == IF a >= b THEN b ELSE a
         IN  IF hi - lo >= 2 \/ lo = 0 THEN FALSE
             ELSE ScaledErr(hi) - ScaledErr(lo) < ScaledErr(1)

\* floor(log2(k)), k >= 1
Log2(k) == CHOOSE e \in 0 .. 29 : 2^e <= k /\ k < 2^(e + 1)

\* line 382: int(new_price * 100) for the double of k cents.  The product
\* k + FloatErr(k) * 2^(e-52) is rounded to a double; it falls short of k,
\* and int() gives k - 1, when the error is negative and more than half the
\* spacing of the doubles below k.
IntTimes100(k) ==
    IF k = 0 \/ FloatErr(k) >= 0 THEN k
    ELSE LET below == IF 2^Log2(k) = k THEN Log2(k) - 1 ELSE Log2(k)
         IN  IF 2 * (0 - ScaledErr(k)) > 2^(below + 7) THEN k - 1 ELSE k

\* line 362: round(new_price, 2), in cents, of a price of x units.  Python
\* rounds the double's exact value; when x lies exactly between two cents
\* the double computed for it may lie on either side, and both are allowed.
Round2(x) ==
    LET q == x \div Scale
        r == x % Scale
    IN  IF 2 * r < Scale THEN {q}
        ELSE IF 2 * r > Scale THEN {q + 1}
        ELSE {q, q + 1}

(***************************************************************************)
(* process_inventory.  An inventory record holds, as far as the function   *)
(* reads it: whether "product" and, inside it, "single" are absent, null,  *)
(* an object, or ("text") a non-empty value that is no object; the two     *)
(* identifiers ("" when absent); the codes copied to the update; and       *)
(* price_cents (None when null).  price_data maps each key of the index    *)
(* fetch_prices builds to the card's nine price fields.                    *)
(***************************************************************************)
Card(nm, lp, general) ==
    [price_cents_nm |-> nm, price_cents_lp_plus |-> lp, price_cents |-> general,
     price_cents_nm_foil |-> 3, price_cents_lp_plus_foil |-> None,
     price_cents_foil |-> None,
     price_cents_nm_etched |-> None, price_cents_lp_plus_etched |-> None,
     price_cents_etched |-> None]

\* lines 181-192: one card, indexed by its scryfall_id and by its id
Catalogs ==
    { [key \in {"s1", "p1"} |-> Card(nm, lp, general)] :
        nm \in {None, 3}, lp \in {None, 4}, general \in {1} }

Item(product, single, scryfall_id, product_id, finish_id, cents) ==
    [product |-> product, single |-> single, scryfall_id |-> scryfall_id,
     product_id |-> product_id, finish_id |-> finish_id, condition_id |-> "NM",
     language_id |-> "en", price_cents |-> cents, quantity |-> 1]

\* records whose linkage to a card is absent or malformed
Unlinked ==
    { Item("absent", "absent", "", "", "NF", 2),
      Item("null", "absent", "", "", "NF", 2),
      Item("object", "absent", "", "p1", "NF", 2),
      Item("object", "null", "", "p1", "NF", 2),
      Item("object", "text", "", "p1", "NF", 2),
      Item("object", "object", "", "", "NF", 2),
      Item("object", "object", "s9", "", "NF", 2) }

\* records linked to the card: by scryfall_id at each price of a few cents
\* and at two prices far above the card's, by product id alone, by product
\* id under an unknown scryfall_id, in foil, in a finish no price field
\* exists for, and with a null price
Linked ==
    { Item("object", "object", "s1", "p1", "NF", c) : c \in Cents \cup {13, 60} }
    \cup { Item("object", "object", "", "p1", "NF", 2),
           Item("object", "object", "s9", "p1", "NF", 2),
           Item("object", "object", "s1", "", "FO", 2),
           Item("object", "object", "s1", "", "XX", 2),
           Item("object", "object", "s1", "", "NF", None) }

Items == Unlinked \cup Linked

RECURSIVE SeqsUpTo(_, _)
SeqsUpTo(S, n) ==
    IF n = 0 THEN {<<>>}
    ELSE LET shorter == SeqsUpTo(S, n - 1)
         IN  shorter \cup {Append(q, x) : q \in shorter, x \in S}

\* lines 410-425
get_nm_price(card_data, finish) ==
    IF finish = "NF" THEN card_data.price_cents_nm
    ELSE IF finish = "FO" THEN card_data.price_cents_nm_foil
    ELSE IF finish = "EF" THEN card_data.price_cents_nm_etched
    ELSE None

\* lines 427-442
get_lp_plus_price(card_data, finish) ==
    IF finish = "NF" THEN card_data.price_cents_lp_plus
    ELSE IF finish = "FO" THEN card_data.price_cents_lp_plus_foil
    ELSE IF finish = "EF" THEN card_data.price_cents_lp_plus_etched
    ELSE None

\* lines 444-460
get_general_price(card_data, finish) ==
    IF finish = "NF" THEN card_data.price_cents
    ELSE IF finish = "FO" THEN card_data.price_cents_foil
    ELSE IF finish = "EF" THEN card_data.price_cents_etched
    ELSE None

\* float(price_cents) / 100.0 of a present price, in units
Dollars(cents) == IF cents = None THEN None ELSE cents * Scale

\* lines 318-322: the key card_data is found under, "" when it is not found
LookupKey(item) ==
    IF item.scryfall_id # "" /\ item.scryfall_id \in DOMAIN price_data
    THEN item.scryfall_id
    ELSE IF item.product_id # "" /\ item.product_id \in DOMAIN price_data
         THEN item.product_id
         ELSE ""

\* what the loop body leaves of a record: the counter it moves, the local
\* new_price (rounded, in cents; None when there is none), and the update it
\* appends, if any
Left(counter, new_cents, emitted) ==
    [counter |-> counter, new_price |-> new_cents, emitted |-> emitted]

Update(item, new_cents, reason) ==
    [scryfall_id |-> IF item.scryfall_id # "" THEN item.scryfall_id
                     ELSE item.product_id,
     finish_id |-> item.finish_id,
     condition_id |-> item.condition_id,
     language_id |-> item.language_id,
     price_cents |-> IntTimes100(new_cents),
     quantity |-> item.quantity,
     _name |-> "Unknown",
     _set |-> "???",
     _current_price |-> item.price_cents,
     _new_price |-> new_cents,
     _reason |-> reason,
     _matched_by |-> IF item.scryfall_id # "" /\ item.scryfall_id \in DOMAIN price_data
                     THEN "scryfall_id" ELSE "product_id"]

\* lines 304-391, the body of the try: the outcomes it can have on a record.
\* "raise" is an exception leaving the body: .get on a product that is null
\* (line 307) or on a single that is no object (line 314), or the division
\* of a null price_cents (line 336).
Body(item) ==
    IF item.product = "null" THEN {Left("raise", None, <<>>)}
    ELSE IF item.product = "absent" \/ item.single \in {"absent", "null"}
    THEN {Left("no_data", None, <<>>)}
    ELSE IF item.single = "text" THEN {Left("raise", None, <<>>)}
    ELSE IF LookupKey(item) = "" THEN {Left("no_data", None, <<>>)}
    ELSE IF item.price_cents = None THEN {Left("raise", None, <<>>)}
    ELSE IF item.scryfall_id = "" /\ item.product_id = ""
    THEN {Left("no_data", None, <<>>)}
    ELSE
    LET card_data == price_data[LookupKey(item)]
        r == calculate_new_price(
                 Dollars(item.price_cents),
                 Dollars(get_nm_price(card_data, item.finish_id)),
                 Dollars(get_lp_plus_price(card_data, item.finish_id)),
                 Dollars(get_general_price(card_data, item.finish_id)))
    IN  IF r.price = None THEN {Left("no_data", None, <<>>)}
        ELSE { IF CentsDifferBelowCent(k, item.price_cents)
               THEN Left("no_change", k, <<>>)
               ELSE Left(IF k > item.price_cents THEN "increased" ELSE "decreased",
                         k, <<Update(item, k, r.reason)>>)
               : k \in Round2(r.price) }

HandlerReraises(left) == left

\* lines 393-395: except Exception counts the record under errors
Handler(left) ==
    IF left.counter = "raise" THEN [left EXCEPT !.counter = "errors"] ELSE left

Counters == {"no_data", "no_change", "increased", "decreased", "errors"}

InitProcess ==
    /\ InitConfig
    /\ dry_run = TRUE
    /\ lp_floor_percent = LP_FLOOR_PERCENT
    /\ min_price = MIN_PRICE_CENTS * Scale
    /\ IdleCalc
    /\ IdleApply
    /\ IdleFetch
    /\ inventory \in SeqsUpTo(Items, MaxItems)
    /\ price_data \in Catalogs
    /\ processed = 0
    /\ updates = <<>>
    /\ stats = [c \in Counters \cup {"total"} |-> 0]
    /\ trace = <<>>
    /\ pc = "process_inventory"

\* lines 301-395: one turn of the loop
ProcessItem ==
    /\ pc = "process_inventory"
    /\ processed < Len(inventory)
    /\ \E body \in Body(inventory[processed + 1]) :
          LET left == Handler(body) IN
          /\ processed' = processed + 1
          /\ trace' = Append(trace, left)
          /\ IF left.counter = "raise"
             THEN /\ stats' = [stats EXCEPT !["total"] = @ + 1]
                  /\ updates' = updates
                  /\ pc' = "raised"
             ELSE /\ stats' = [stats EXCEPT !["total"] = @ + 1,
                                             ![left.counter] = @ + 1]
                  /\ updates' = updates \o left.emitted
                  /\ pc' = pc
    /\ UNCHANGED <<config, fetchVars, calcVars, applyVars, inventory, price_data>>

\* lines 397-408: the loop is over, the summary is logged, updates returned
ReturnUpdates ==
    /\ pc = "process_inventory"
    /\ processed = Len(inventory)
    /\ pc' = "returned"
    /\ UNCHANGED <<config, fetchVars, calcVars, applyVars, processVars>>

NextProcess == ProcessItem \/ ReturnUpdates

SpecProcess == InitProcess /\ [][NextProcess]_vars

(***************************************************************************)
(* Properties of process_inventory, over every record the loop has taken.  *)
(***************************************************************************)
Taken == 1 .. Len(trace)
Emitted(i) == trace[i].emitted # <<>>
Abs(n) == IF n >= 0 THEN n ELSE 0 - n

\* the record's linkage is absent or malformed: no product or single data,
\* no identifier, or no catalog entry under either identifier
BadLinkage(item) ==
    \/ item.product # "object"
    \/ item.single # "object"
    \/ item.scryfall_id = "" /\ item.product_id = ""
    \/ {item.scryfall_id, item.product_id} \cap DOMAIN price_data = {}

\* the record is linked to a card that lacks the reference price the active
\* strategy requires, in the record's finish
NoReference(item) ==
    /\ ~BadLinkage(item)
    /\ LET card == price_data[LookupKey(item)]
           nm == get_nm_price(card, item.finish_id)
           lp == get_lp_plus_price(card, item.finish_id)
           general == get_general_price(card, item.finish_id)
       IN  CASE pricing_strategy = "nm_only" -> nm = None
             [] pricing_strategy = "lp_plus" -> lp = None
             [] pricing_strategy = "general_low" -> general = None
             [] pricing_strategy = "average" -> nm = None /\ lp = None
             [] OTHER -> nm = None

\* stats counts each record taken once, under the counter the trace names
StatsCountTrace ==
    /\ stats["total"] = Len(trace)
    /\ \A c \in Counters : stats[c] = Cardinality({i \in Taken : trace[i].counter = c})

\* C7: an update is emitted for a record exactly when a price was decided and
\* the decided price, rounded to cents, differs from the current price by at
\* least a cent; otherwise, with a decision, the record counts as no_change.
C7_UpdateIffChanged ==
    \A i \in Taken :
        LET decided == trace[i].new_price # None
            differs == decided /\ Abs(trace[i].new_price - inventory[i].price_cents) >= 1
        IN  /\ Emitted(i) <=> differs
            /\ (decided /\ ~differs) => trace[i].counter = "no_change"

ReadRaises(item) ==
    \/ item.product = "null"
    \/ item.product = "object" /\ item.single = "text"
    \/ ~BadLinkage(item) /\ item.price_cents = None

BATCH_SIZE == 1500

IsSpace(c) == c \in {" ", "\t"}

\* str.lower, on the letters of the lines below
LowerChar(c) ==
    CASE c = "Y" -> "y" [] c = "E" -> "e" [] c = "S" -> "s"
      [] c = "N" -> "n" [] c = "O" -> "o" [] OTHER -> c

RECURSIVE LStrip(_)
LStrip(line) ==
    IF line # <<>> /\ IsSpace(Head(line)) THEN LStrip(Tail(line)) ELSE line

RECURSIVE RStrip(_)
RStrip(line) ==
    IF line # <<>> /\ IsSpace(line[Len(line)])
    THEN RStrip(SubSeq(line, 1, Len(line) - 1))
    ELSE line

\* line 516: .strip().lower()
StripLower(line) ==
    LET stripped == RStrip(LStrip(line))
    IN  [k \in 1 .. Len(stripped) |-> LowerChar(stripped[k])]

ConfirmedByFirstLetter(line) ==
    StripLower(line) # <<>> /\ StripLower(line)[1] = "y"

\* lines 516-521: response == "yes"
Confirmed(line) == StripLower(line) = <<"y", "e", "s">>

\* what input() can give: a line, or KeyboardInterrupt or EOFError raised
Lines ==
    { <<"y", "e", "s">>, <<"Y", "E", "S">>, <<" ", "Y", "e", "s", "\t">>,
      <<>>, <<" ">>, <<"y">>, <<"n", "o">>, <<"N", "O">>,
      <<"y", "e", "s", "!">>, <<"y", " ", "e", "s">>, <<"y", "e", "s", "s">> }

Answers ==
    { [raised |-> "none", line |-> l] : l \in Lines }
    \cup { [raised |-> e, line |-> <<>>] : e \in {"KeyboardInterrupt", "EOFError"} }

\* an update record as process_inventory builds them, told apart by quantity
UpdateNo(n) ==
    [scryfall_id |-> "s1", finish_id |-> "NF", condition_id |-> "NM",
     language_id |-> "en", price_cents |-> 3, quantity |-> n,
     _name |-> "Unknown", _set |-> "???", _current_price |-> 2,
     _new_price |-> 3, _reason |-> <<"NM price">>, _matched_by |-> "scryfall_id"]

UpdateCounts == {0, 1, 2, BATCH_SIZE, BATCH_SIZE + 1, 2 * BATCH_SIZE + 1}

\* lines 531-540
CleanUpdate(update) ==
    [scryfall_id |-> update.scryfall_id, finish_id |-> update.finish_id,
     condition_id |-> update.condition_id, language_id |-> update.language_id,
     price_cents |-> update.price_cents, quantity |-> update.quantity]

\* line 551: clean_updates[i:i + batch_size]
Batch(i) ==
    LET last == IF i + BATCH_SIZE <= Len(updates) THEN i + BATCH_SIZE ELSE Len(updates)
    IN  [k \in 1 .. (last - i) |-> CleanUpdate(updates[i + k])]

InitApply ==
    /\ pricing_strategy = "lp_plus"
    /\ lp_floor_percent = LP_FLOOR_PERCENT
    /\ min_price = MIN_PRICE_CENTS * Scale
    /\ max_reduction_percent = MAX_REDUCTION_PERCENT
    /\ dry_run \in BOOLEAN
    /\ IdleCalc
    /\ inventory = <<>>
    /\ price_data = <<>>
    /\ processed = 0
    /\ \E n \in UpdateCounts : updates = [k \in 1 .. n |-> UpdateNo(k)]
    /\ stats = <<>>
    /\ trace = <<>>
    /\ IdleApply
    /\ IdleFetch
    /\ pc = "apply_updates"

Return(value) ==
    /\ result' = value
    /\ pc' = "returned"

\* lines 464-513: nothing to apply, or the preview and then the dry-run
\* return, or on to the prompt
Begin ==
    /\ pc = "apply_updates"
    /\ IF updates = <<>> THEN Return("True")
       ELSE IF dry_run THEN Return("True")
       ELSE pc' = "input" /\ result' = result
    /\ UNCHANGED <<config, fetchVars, calcVars, processVars, answer, posted, responses, offset>>

\* lines 515-547: input() returns or raises
Confirm ==
    /\ pc = "input"
    /\ \E a \in Answers :
          /\ answer' = a
          /\ IF a.raised # "none" THEN Return("False")
             ELSE IF ~Confirmed(a.line) THEN Return("False")
             ELSE pc' = "post" /\ result' = result
    /\ offset' = 0
    /\ UNCHANGED <<config, fetchVars, calcVars, processVars, posted, responses>>

PostBatchKeepsGoing ==
    /\ pc = "post"
    /\ offset < Len(updates)
    /\ posted' = Append(posted, Batch(offset))
    /\ \E accepted \in BOOLEAN :
          responses' = Append(responses, IF accepted THEN "ok" ELSE "RequestException")
    /\ offset' = offset + BATCH_SIZE
    /\ UNCHANGED <<config, fetchVars, calcVars, processVars, answer, result, pc>>

\* lines 549-561: one turn of the loop; the POST is accepted, or it raises a
\* RequestException (from post or from raise_for_status)
PostBatch ==
    /\ pc = "post"
    /\ offset < Len(updates)
    /\ posted' = Append(posted, Batch(offset))
    /\ \E accepted \in BOOLEAN :
          IF accepted
          THEN /\ responses' = Append(responses, "ok")
               /\ offset' = offset + BATCH_SIZE
               /\ UNCHANGED <<result, pc>>
          ELSE /\ responses' = Append(responses, "RequestException")
               /\ Return("False")
               /\ offset' = offset
    /\ UNCHANGED <<config, fetchVars, calcVars, processVars, answer>>

\* lines 563-565
Finish ==
    /\ pc = "post"
    /\ offset >= Len(updates)
    /\ Return("True")
    /\ UNCHANGED <<config, fetchVars, calcVars, processVars, answer, posted, responses, offset>>

NextApply == Begin \/ Confirm \/ PostBatch \/ Finish

SpecApply == InitApply /\ [][NextApply]_vars

\* the line, with whitespace removed at both ends and in lower case, is "yes"
SaysYes(line) ==
    \E a, b \in 0 .. Len(line) :
        /\ a + 3 + b = Len(line)
        /\ \A k \in 1 .. a : line[k] \in {" ", "\t"}
        /\ \A k \in (a + 4) .. Len(line) : line[k] \in {" ", "\t"}
        /\ line[a + 1] \in {"y", "Y"}
        /\ line[a + 2] \in {"e", "E"}
        /\ line[a + 3] \in {"s", "S"}

\* C10: a batch is POSTed only if dry_run is false and the line typed at the
\* prompt says yes, the prompt coming before the first POST; a dry run sends
\* nothing and returns True; a declined, interrupted or ended prompt sends
\* nothing and returns False.
C10_PostOnlyConfirmed ==
    /\ posted # <<>> =>
          /\ ~dry_run
          /\ answer.raised = "none"
          /\ SaysYes(answer.line)
    /\ (dry_run /\ pc = "returned") => (posted = <<>> /\ result = "True")
    /\ dry_run => answer = NotAsked
    /\ (answer.raised \in {"KeyboardInterrupt", "EOFError"}
           \/ (answer.raised = "none" /\ ~SaysYes(answer.line)))
          => (posted = <<>> /\ pc = "returned" /\ result = "False")

\* a batch was POSTed after a line in capitals between whitespace
C10_Witness ==
    /\ posted # <<>>
    /\ answer.line = <<" ", "Y", "e", "s", "\t">>

\* the batches POSTed so far, one after the other
RECURSIVE Submitted(_)
Submitted(n) == IF n = 0 THEN <<>> ELSE Submitted(n - 1) \o posted[n]

\* record r carries the six fields of update u that the sink accepts, and
\* nothing else
Carries(r, u) ==
    /\ DOMAIN r = {"scryfall_id", "finish_id", "condition_id", "language_id",
                   "price_cents", "quantity"}
    /\ \A f \in DOMAIN r : r[f] = u[f]

Rejected(k) == responses[k] # "ok"

\* C11: once confirmed, the updates are submitted as consecutive batches of at
\* most 1500 records in their original order, each update in exactly one
\* batch; True is returned only if every batch was accepted, and then every
\* update was submitted; at the first rejected batch the function stops and
\* returns False, no later batch being submitted.
C11_BatchesInOrder ==
    LET sent == Submitted(Len(posted)) IN
    /\ Len(responses) = Len(posted)
    /\ \A k \in 1 .. Len(posted) : Len(posted[k]) \in 1 .. 1500
    /\ Len(sent) <= Len(updates)
    /\ \A j \in 1 .. Len(sent) : Carries(sent[j], updates[j])
    /\ \A k \in 1 .. Len(posted) :
          Rejected(k) => (k = Len(posted) /\ pc = "returned" /\ result = "False")
    /\ (posted # <<>> /\ pc = "returned") =>
          /\ result = "True" <=> \A k \in 1 .. Len(posted) : ~Rejected(k)
          /\ result = "True" => Len(sent) = Len(updates)
    /\ (pc = "returned" /\ result = "True" /\ ~dry_run) =>
          Len(sent) = Len(updates)

\* three batches were due; the first was accepted, the second rejected, and
\* the function returned False with the third never submitted
C11_Witness ==
    /\ Len(updates) = 2 * 1500 + 1
    /\ Len(posted) = 2 /\ Len(posted[1]) = 1500 /\ Len(posted[2]) = 1500
    /\ responses = <<"ok", "RequestException">>
    /\ pc = "returned" /\ result = "False"

(***************************************************************************)
(* fetch_inventory.  The server holds the records held and serves them in  *)
(* pages by offset: asked for limit records from offset on, it returns the *)
(* records that follow the offset, at most limit of them and at most       *)
(* page_size, with the pagination block telling the total it holds and the *)
(* number it returned.                                                     *)
(***************************************************************************)
LIMIT == 10000

Min(a, b) == IF a <= b THEN a ELSE b

\* the body of the response to GET /seller/inventory?limit=..&offset=..
Page(limit, from) ==
    LET last == Min(Len(held), from + Min(limit, page_size))
    IN  [inventory |-> [k \in 1 .. Max(last - from, 0) |-> held[from + k]],
         pagination |-> [total |-> Len(held), returned |-> Max(last - from, 0)]]

HeldCounts == {0, 1, 2, LIMIT - 1, LIMIT, LIMIT + 1, 2 * LIMIT, 2 * LIMIT + 1}
PageSizes == {1, 2, LIMIT - 1, LIMIT, LIMIT + 1}

\* lines 130-132
InitFetch ==
    /\ pricing_strategy = "lp_plus"
    /\ lp_floor_percent = LP_FLOOR_PERCENT
    /\ min_price = MIN_PRICE_CENTS * Scale
    /\ max_reduction_percent = MAX_REDUCTION_PERCENT
    /\ dry_run = TRUE
    /\ IdleCalc
    /\ IdleProcess
    /\ answer = NotAsked /\ posted = <<>> /\ responses = <<>> /\ result = "none"
    /\ offset = 0
    /\ \E n \in HeldCounts : held = [k \in 1 .. n |-> k]
    /\ page_size \in PageSizes
    /\ all_items = <<>>
    /\ pc = "fetch_inventory"

\* lines 134-162: one turn of the loop with a response received; the loop
\* is left, and all_items returned, on the test of line 155
GetPage ==
    /\ pc = "fetch_inventory"
    /\ LET data == Page(LIMIT, offset)
           collected == all_items \o data.inventory
       IN  /\ all_items' = collected
           /\ IF Len(collected) >= data.pagination.total
                 \/ data.pagination.returned < LIMIT
              THEN pc' = "returned" /\ offset' = offset
              ELSE pc' = pc /\ offset' = offset + LIMIT
    /\ UNCHANGED <<config, calcVars, processVars, answer, posted, responses,
                   result, held, page_size>>

\* lines 142-144: the request raises a RequestException, sys.exit(1)
GetFails ==
    /\ pc = "fetch_inventory"
    /\ pc' = "exited"
    /\ UNCHANGED <<config, calcVars, processVars, applyVars, fetchVars>>

NextFetch == GetPage \/ GetFails

SpecFetch == InitFetch /\ [][NextFetch]_vars

\* C12: when fetch_inventory returns it has collected every record the
\* server holds, the number collected being the total the server reports,
\* whatever the number of records the server serves in one page.
C12_FetchesAll ==
    pc = "returned" => (Len(all_items) = Len(held) /\ all_items = held)

(***************************************************************************)
(* The reduction cap across process_inventory's rounding and conversion.   *)
(***************************************************************************)
\* the update emitted for record i: its price_cents and its _new_price, both
\* in cents
Sent(i) == trace[i].emitted[1]

\* C13: every update emitted for a record with current price > 0 carries a
\* new price, both as rounded to 2 decimals and as sent in price_cents, of
\* at least current_price * (1 - max_reduction_percent/100).
C13_CapSurvivesRounding ==
    \A i \in Taken :
        (Emitted(i) /\ inventory[i].price_cents > 0) =>
            /\ 100 * Sent(i)._new_price
                  >= inventory[i].price_cents * (100 - max_reduction_percent)
            /\ 100 * Sent(i).price_cents
                  >= inventory[i].price_cents * (100 - max_reduction_percent)

(***************************************************************************)
(* Repeated runs.  run() makes one pass: process_inventory, then           *)
(* apply_updates, which POSTs each update's price_cents.  Between runs the *)
(* marketplace takes each update as the price of the record it was emitted *)
(* for; the catalog and the configuration stay as they are, and the next   *)
(* run fetches the inventory so changed.                                   *)
(***************************************************************************)
\* the records of a run: linked by scryfall_id, at a price of a few cents or
\* at a price far above the card's
RerunItems ==
    { Item("object", "object", "s1", "p1", "NF", c) : c \in Cents \cup {13, 60} }

InitRerun ==
    /\ InitConfig
    /\ dry_run = FALSE
    /\ lp_floor_percent = LP_FLOOR_PERCENT
    /\ min_price = MIN_PRICE_CENTS * Scale
    /\ IdleCalc
    /\ IdleApply
    /\ IdleFetch
    /\ inventory \in SeqsUpTo(RerunItems, MaxItems) \ {<<>>}
    /\ price_data \in Catalogs
    /\ processed = 0
    /\ updates = <<>>
    /\ stats = [c \in Counters \cup {"total"} |-> 0]
    /\ trace = <<>>
    /\ pc = "process_inventory"

\* lines 530-557 and, in the next run, lines 660-664: every update is sent
\* and taken, record k of the next inventory has the price_cents of the
\* update emitted for it, and process_inventory starts again
ApplyAndRerun ==
    /\ pc = "returned"
    /\ inventory' =
          [k \in 1 .. Len(inventory) |->
              IF trace[k].emitted # <<>>
              THEN [inventory[k] EXCEPT !.price_cents = trace[k].emitted[1].price_cents]
              ELSE inventory[k]]
    /\ processed' = 0
    /\ updates' = <<>>
    /\ stats' = [c \in Counters \cup {"total"} |-> 0]
    /\ trace' = <<>>
    /\ pc' = "process_inventory"
    /\ UNCHANGED <<config, fetchVars, calcVars, applyVars, price_data>>

NextRerun == ProcessItem \/ ReturnUpdates \/ ApplyAndRerun

SpecRerun == InitRerun /\ [][NextRerun]_vars

\* 200 times the strategy price of the record's card clamped up to the
\* minimum price, in units; None when the strategy has no price for it
TargetTimes200(item) ==
    LET card == price_data[item.scryfall_id]
        nm == Dollars(get_nm_price(card, item.finish_id))
        lp == Dollars(get_lp_plus_price(card, item.finish_id))
        general == Dollars(get_general_price(card, item.finish_id))
        base ==
            CASE pricing_strategy = "nm_only" -> IF nm = None THEN None ELSE 200 * nm
              [] pricing_strategy = "lp_plus" -> IF lp = None THEN None ELSE 200 * lp
              [] pricing_strategy = "general_low" ->
                    IF general = None THEN None ELSE 200 * general
              [] pricing_strategy = "average" ->
                    IF nm = None /\ lp = None THEN None
                    ELSE IF nm = None THEN 200 * lp
                    ELSE IF lp = None THEN 200 * nm
                    ELSE 100 * (nm + lp)
              [] OTHER ->
                    IF nm = None THEN None
                    ELSE IF lp = None THEN 200 * nm
                    ELSE Max(200 * nm, 2 * lp * lp_floor_percent)
    IN  IF base = None THEN None ELSE Max(base, 200 * min_price)

\* the record's price is its target, to the nearest cent
AtTarget(item) ==
    Abs(200 * Scale * item.price_cents - TargetTimes200(item)) <= 100 * Scale

\* every outcome the pass can have on the record leaves it without an update:
\* with the catalog and the configuration unchanged no later run changes it
Settled(item) == \A left \in Body(item) : left.emitted = <<>>

\* C14: with catalog and configuration unchanged, repeated runs bring every
\* record that has a price decision to its strategy price clamped up to the
\* minimum price, after which runs emit no update.  A run is deterministic
\* in the record, so a record is brought to its target only if no run that
\* leaves it without an update, and can leave it no other way, finds it at
\* another price: a run that ends with a decided record settled finds the
\* record at its target.
C14_SettlesOnlyAtTarget ==
    pc = "returned" =>
        \A i \in Taken :
            (trace[i].new_price # None /\ ~Emitted(i) /\ Settled(inventory[i]))
                => AtTarget(inventory[i])

====
